---- MODULE Spec2Model ----
(***************************************************************************)
(* TOPSIS scoring (src/part1/topsis.py) and the HTTP endpoint that wraps   *)
(* it (src/part3/app.py).                                                  *)
(*                                                                         *)
(* Representation.                                                         *)
(*  - A string that the code splits on "," is a sequence of lexemes: the   *)
(*    maximal comma-free runs and the commas ("1,-1" is <<"1", ",", "-1">>,*)
(*    "" is << >>).                                                        *)
(*  - A file is a record: absent, garbled (bytes pd.read_csv rejects) or a *)
(*    csv table with a header and rows of cells.                           *)
(*  - A cell is a record [t, s, a, b]: text s as found in the input file   *)
(*    (t = "txt"), a written integer a (t = "int"), or a written score     *)
(*    (t = "score") or NaN (t = "nan").                                    *)
(*  - Arithmetic is exact.  Column j of the weighted matrix is             *)
(*    x[i][j] * w[j] / sqrt(N[j]) with N[j] the column's sum of squares,   *)
(*    so within a column values are ordered as their numerators            *)
(*    x[i][j] * w[j], and a squared distance is the rational               *)
(*       SUM_j (num[i][j] - ideal[j])^2 / N[j].                            *)
(*    Squared distances are kept over the common denominator PROD_j N[j];  *)
(*    a score d_worst / (d_best + d_worst) is the pair (a, b) of the       *)
(*    scaled squared distances to the worst and to the best point, and two *)
(*    scores compare as sqrt(a1) * sqrt(b2) against sqrt(a2) * sqrt(b1).   *)
(***************************************************************************)
EXTENDS Integers, Sequences, FiniteSets, TLC

VARIABLES fs,      \* the file system: path -> file
          argv,    \* the command line of the topsis.py process
          pc,      \* the topsis.py process: "ready", then "done"
          stdout,  \* what the topsis.py process printed
          raised,  \* whether the topsis.py process ended with an exception
          req      \* the HTTP handlers: one record per handler thread

vars == <<fs, argv, pc, stdout, raised, req>>

(***************************************************************************)
(* Bounds                                                                  *)
(***************************************************************************)
\* Rows of an input table in the ranking runs (SpecRank).
MaxRows == 4
\* Rows of an input table in the command-line runs (SpecCli).
MaxCliRows == 2

(***************************************************************************)
(* Files and cells                                                         *)
(***************************************************************************)
Txt(s) == [t |-> "txt", s |-> s, a |-> 0, b |-> 0]
IntCell(n) == [t |-> "int", s |-> "", a |-> n, b |-> 0]
ScoreCell(dw2, db2) == [t |-> "score", s |-> "", a |-> dw2, b |-> db2]
NaNCell == [t |-> "nan", s |-> "", a |-> 0, b |-> 0]

Absent == [kind |-> "absent", header |-> << >>, rows |-> << >>]
Garbled == [kind |-> "garbled", header |-> << >>, rows |-> << >>]
Csv(header, rows) == [kind |-> "csv", header |-> header, rows |-> rows]

(***************************************************************************)
(* Helpers of the two libraries                                            *)
(***************************************************************************)
\* str.split(","): "".split(",") is [""], "1,".split(",") is ["1", ""].
RECURSIVE Split(_)
Split(s) ==
    IF s = << >> THEN <<"">>
    ELSE IF Head(s) = "," THEN <<"">> \o Split(Tail(s))
    ELSE IF Len(s) = 1 THEN <<Head(s)>>
    ELSE <<Head(s)>> \o Split(Tail(Tail(s)))

\* float(tok) over the tokens of the model; anything else raises ValueError.
FloatTokens == {"0", "1", "2", "-1"}
ParseFloat(tok) ==
    CASE tok = "0" -> 0
      [] tok = "1" -> 1
      [] tok = "2" -> 2
      [] tok = "-1" -> 0 - 1
IsFloat(tok) == tok \in FloatTokens

RECURSIVE SumTo(_, _)
SumTo(s, n) == IF n = 0 THEN 0 ELSE s[n] + SumTo(s, n - 1)
SumSeq(s) == SumTo(s, Len(s))

RECURSIVE ProdTo(_, _)
ProdTo(s, n) == IF n = 0 THEN 1 ELSE s[n] * ProdTo(s, n - 1)
ProdSeq(s) == ProdTo(s, Len(s))

\* The array of a comprehension, its elements computed once.
Array(f) == << >> \o f

MaxOf(S) == CHOOSE x \in S : \A y \in S : y <= x
MinOf(S) == CHOOSE x \in S : \A y \in S : x <= y

(***************************************************************************)
(* topsis(input_file, weights, impacts, output_file)                       *)
(***************************************************************************)
\* pd.read_csv: the table of the file.
read_csv(file) == [header |-> file.header, rows |-> file.rows]

\* df.iloc[:, 1:]: the cells of the criterion columns.
CriteriaCells(df) ==
    Array([i \in 1..Len(df.rows) |->
              Array([j \in 1..(Len(df.header) - 1) |-> df.rows[i][j + 1]])])

\* data.astype(float) succeeds.
AllNumeric(cells) ==
    \A i \in DOMAIN cells : \A j \in DOMAIN cells[i] : IsFloat(cells[i][j].s)

\* data.astype(float)
AsFloat(cells) ==
    Array([i \in DOMAIN cells |->
              Array([j \in DOMAIN cells[i] |-> ParseFloat(cells[i][j].s)])])

\* len(weight_list) != data.shape[1] or len(impact_list) != data.shape[1]
CountMismatch(weight_list, impact_list, ncrit) ==
    Len(weight_list) # ncrit \/ Len(impact_list) # ncrit

\* [float(w) for w in weight_list] succeeds.
WeightsNumeric(weight_list) == \A k \in DOMAIN weight_list : IsFloat(weight_list[k])

\* A missing check of the impact symbols.
ImpactsUnchecked(impact_list) == TRUE

\* for imp in impact_list: if imp not in ["+", "-"]
ImpactsValid(impact_list) == \A k \in DOMAIN impact_list : impact_list[k] \in {"+", "-"}

\* (data ** 2).sum(): the square of norm, per column.
SumSquares(data, ncrit) ==
    Array([j \in 1..ncrit |-> SumSeq([i \in DOMAIN data |-> data[i][j] * data[i][j]])])

\* A column of normalized_data = data / norm is NaN throughout when norm is 0.
NaNColumn(N, j) == N[j] = 0

\* weighted_data's numerators: data * weight_list (over the column's norm).
WeightedNum(data, w, ncrit) ==
    Array([i \in DOMAIN data |-> Array([j \in 1..ncrit |-> data[i][j] * w[j]])])

ColumnSet(wd, j) == {wd[i][j] : i \in DOMAIN wd}

\* ideal_best: max of a "+" column, min of any other; ideal_worst the reverse.
\* (Of a NaN column both are NaN, and Dist2 leaves the column out.)
IdealBest(wd, impact_list, ncrit) ==
    Array([j \in 1..ncrit |->
        IF impact_list[j] = "+" THEN MaxOf(ColumnSet(wd, j))
        ELSE MinOf(ColumnSet(wd, j))])

IdealWorst(wd, impact_list, ncrit) ==
    Array([j \in 1..ncrit |->
        IF impact_list[j] = "+" THEN MinOf(ColumnSet(wd, j))
        ELSE MaxOf(ColumnSet(wd, j))])

\* ((weighted_data - ideal) ** 2).sum(axis=1) of row i, scaled by the product
\* of the nonzero N[j]: DataFrame.sum skips the NaN of a zero-norm column.
Dist2(wd, ideal, N, ncrit, i) ==
    SumSeq([j \in 1..ncrit |->
        IF NaNColumn(N, j) THEN 0
        ELSE (wd[i][j] - ideal[j]) * (wd[i][j] - ideal[j])
             * ProdSeq([k \in 1..ncrit |->
                   IF k = j \/ NaNColumn(N, k) THEN 1 ELSE N[k]])])

\* score = d_worst / (d_best + d_worst): 0/0 is NaN.
ScoreOf(dw2, db2) == IF dw2 = 0 /\ db2 = 0 THEN NaNCell ELSE ScoreCell(dw2, db2)

Scores(data, w, impact_list, ncrit) ==
    LET N == SumSquares(data, ncrit)
        wd == WeightedNum(data, w, ncrit)
        best == IdealBest(wd, impact_list, ncrit)
        worst == IdealWorst(wd, impact_list, ncrit)
    IN  Array([i \in DOMAIN data |->
            ScoreOf(Dist2(wd, worst, N, ncrit, i), Dist2(wd, best, N, ncrit, i))])

\* Order of two finite scores: sqrt(x.a)/(sqrt(x.b)+sqrt(x.a)) against y's.
ScoreGT(x, y) == x.a * y.b > y.a * x.b
ScoreEQ(x, y) == x.a * y.b = y.a * x.b

\* Series.rank(ascending=True) in place of ascending=False.
AscendingRank2(col, i) ==
    2 * Cardinality({k \in DOMAIN col : ScoreGT(col[i], col[k])})
    + Cardinality({k \in DOMAIN col : ScoreEQ(col[k], col[i])}) + 1

\* Series.rank(ascending=False), method "average", times two: the mean of the
\* positions g+1 .. g+e of the e rows that share row i's score.
AverageRank2(col, i) ==
    2 * Cardinality({k \in DOMAIN col : ScoreGT(col[k], col[i])})
    + Cardinality({k \in DOMAIN col : ScoreEQ(col[k], col[i])}) + 1

\* .astype(int) of a finite rank truncates.
RankColumn(col) == Array([i \in DOMAIN col |-> IntCell(AverageRank2(col, i) \div 2)])

\* The rank of NaN is NaN, and .astype(int) raises on NaN.
RankRaises(col) == \E i \in DOMAIN col : col[i].t = "nan"

Index(header, name) == CHOOSE k \in DOMAIN header : header[k] = name

\* df[name] = values: replaces the column of that name, or appends one.
SetColumn(df, name, values) ==
    IF \E k \in DOMAIN df.header : df.header[k] = name
    THEN [header |-> df.header,
          rows |-> Array([i \in DOMAIN df.rows |->
                      [df.rows[i] EXCEPT ![Index(df.header, name)] = values[i]]])]
    ELSE [header |-> Append(df.header, name),
          rows |-> Array([i \in DOMAIN df.rows |-> Append(df.rows[i], values[i])])]

Column(df, name) == Array([i \in DOMAIN df.rows |-> df.rows[i][Index(df.header, name)]])

\* df.to_csv(output_file, index=False)
to_csv(df) == Csv(df.header, df.rows)

Returned(files, msg) == [files |-> files, stdout |-> msg, raised |-> FALSE]
Raised(files) == [files |-> files, stdout |-> "", raised |-> TRUE]

ErrNotFound == "Error: File not found."
ErrRead == "Error: Could not read CSV file."
ErrColumns == "Error: Input file must have at least 3 columns (first column names, others numeric)."
ErrNumeric == "Error: All criteria columns must be numeric."
ErrCount == "Error: Number of weights and impacts must match number of criteria columns."
ErrWeights == "Error: Weights must be numeric."
ErrImpacts == "Error: Impacts must be '+' or '-' only."
Success == "TOPSIS completed successfully! Result saved."

\* Lines 43-65: the computation and the write.
Compute(files, df, data, weight_list, impact_list, output_file) ==
    LET ncrit == Len(df.header) - 1
        w == Array([k \in DOMAIN weight_list |-> ParseFloat(weight_list[k])])
        score == Scores(data, w, impact_list, ncrit)
        df1 == SetColumn(df, "Topsis Score", score)
        col == Column(df1, "Topsis Score")
    IN  IF RankRaises(col) THEN Raised(files)
        ELSE Returned([files EXCEPT ![output_file] =
                          to_csv(SetColumn(df1, "Rank", RankColumn(col)))],
                      Success)

topsis(files, input_file, weights, impacts, output_file) ==
    IF files[input_file].kind = "absent" THEN Returned(files, ErrNotFound)
    ELSE IF files[input_file].kind = "garbled" THEN Returned(files, ErrRead)
    ELSE
    LET df == read_csv(files[input_file])
        cells == CriteriaCells(df)
        weight_list == Split(weights)
        impact_list == Split(impacts)
    IN  IF Len(df.header) < 3 THEN Returned(files, ErrColumns)
        ELSE IF ~AllNumeric(cells) THEN Returned(files, ErrNumeric)
        ELSE IF CountMismatch(weight_list, impact_list, Len(df.header) - 1)
             THEN Returned(files, ErrCount)
        ELSE IF ~WeightsNumeric(weight_list) THEN Returned(files, ErrWeights)
        ELSE IF ~ImpactsValid(impact_list) THEN Returned(files, ErrImpacts)
        ELSE Compute(files, df, AsFloat(cells), weight_list, impact_list, output_file)

(***************************************************************************)
(* The command line: python topsis.py <in> <weights> <impacts> <out>       *)
(***************************************************************************)
Usage == "Usage: python topsis.py <InputDataFile> <Weights> <Impacts> <OutputResultFileName>"

\* Lines 67-75: anything but four arguments after the program's name prints
\* the usage; else topsis runs.
Main ==
    /\ pc = "ready"
    /\ pc' = "done"
    /\ \/ /\ Len(argv) # 4
          /\ stdout' = Usage
          /\ UNCHANGED <<fs, raised>>
       \/ /\ Len(argv) = 4
          /\ \E r \in {topsis(fs, argv[1], argv[2], argv[3], argv[4])} :
                /\ fs' = r.files
                /\ stdout' = r.stdout
                /\ raised' = r.raised
    /\ UNCHANGED <<argv, req>>

(***************************************************************************)
(* Inputs of the command-line runs                                         *)
(***************************************************************************)
RowIds == <<"A", "B", "C", "D", "E", "F">>

\* The table with the given header and criterion texts c[i][j]; the identifier
\* column holds the row's label.  A table has at least one row.
Table(header, c) ==
    Csv(header, Array([i \in DOMAIN c |->
                    <<Txt(RowIds[i])>> \o [j \in DOMAIN c[i] |-> Txt(c[i][j])]]))

\* The criterion texts of the tables of n rows under a header.
Texts(header, texts, n) == [1..n -> [1..(Len(header) - 1) -> texts]]

\* What the output path may hold before the run.
Stale == Csv(<<"old">>, <<<<Txt("stale")>>>>)

InPath == "data.csv"
OutPath == "out.csv"

Idle == [pc |-> "idle", file |-> [present |-> FALSE, filename |-> "", content |-> Absent],
         weights |-> << >>, impacts |-> << >>, status |-> 0, body |-> Absent]

CliHeaders == {<<"Name", "C1">>, <<"Name", "C1", "C2">>, <<"Name", "Rank", "C2">>,
               <<"Name", "Topsis Score", "Rank">>}
CliTexts == {"0", "1", "x"}
CliWeights == {<<"1", ",", "1">>, <<"1", ",", "-1">>, <<"1", ",", "x">>, <<"1", ",">>,
               <<"1">>, <<"1", ",", "1", ",", "1">>}
CliImpacts == {<<"+", ",", "+">>, <<"+", ",", "-">>, <<"+", ",", "*">>, <<"+">>,
               <<"-", ",", "+", ",", "+">>}

InitCli ==
    /\ \E o \in {Absent, Stale} :
          \/ \E f \in {Absent, Garbled} : fs = (InPath :> f) @@ (OutPath :> o)
          \/ \E h \in CliHeaders, n \in 1..MaxCliRows :
                \E c \in Texts(h, CliTexts, n) :
                    fs = (InPath :> Table(h, c)) @@ (OutPath :> o)
    /\ argv \in {<<InPath, <<"1", ",", "1">>, <<"+", ",", "+">>>>}
            \cup {<<InPath, w, i, OutPath>> : w \in CliWeights, i \in CliImpacts}
    /\ pc = "ready"
    /\ stdout = ""
    /\ raised = FALSE
    /\ req = << >>

SpecCli == InitCli /\ [][Main]_vars

(***************************************************************************)
(* Inputs of the ranking runs: numeric tables, numeric weights, impacts    *)
(* of "+" and "-".                                                         *)
(***************************************************************************)
RankTexts == {"0", "1", "2"}
RankHeader == <<"Name", "C1", "C2">>
RankWeights == {<<"1", ",", "1">>, <<"1", ",", "2">>}
RankImpacts == {<<"+", ",", "+">>, <<"+", ",", "-">>}

InitRank ==
    /\ \E n \in 1..MaxRows :
          \E c \in Texts(RankHeader, RankTexts, n) :
              fs = (InPath :> Table(RankHeader, c)) @@ (OutPath :> Absent)
    /\ argv \in {<<InPath, <<"1", ",", "1">>, <<"+", ",", "+">>>>}
            \cup {<<InPath, w, i, OutPath>> : w \in RankWeights, i \in RankImpacts}
    /\ pc = "ready"
    /\ stdout = ""
    /\ raised = FALSE
    /\ req = << >>

SpecRank == InitRank /\ [][Main]_vars

(***************************************************************************)
(* The HTTP endpoint: POST /topsis (src/part3/app.py)                      *)
(***************************************************************************)
UPLOAD_FOLDER == "uploads"
RESULT_FOLDER == "results"

\* os.path.join(UPLOAD_FOLDER, file.filename)
input_path(filename) == <<UPLOAD_FOLDER, "", filename>>

\* os.path.join(RESULT_FOLDER, f"result_{file.filename}")
output_path(filename) == <<RESULT_FOLDER, "result_", filename>>

\* request.files.get('file'): None without a file part.
NoFile == [present |-> FALSE, filename |-> "", content |-> Absent]
Upload(filename, content) == [present |-> TRUE, filename |-> filename, content |-> content]

\* not file or not weights or not impacts: a FileStorage without a filename,
\* like None and "", is falsy.
MissingField(file, weights, impacts) ==
    \/ ~file.present
    \/ file.filename = ""
    \/ weights = << >>
    \/ impacts = << >>

\* A missing comparison of the two counts.
CountsNotCompared(weights_list, impacts_list) == FALSE

\* len(weights_list) != len(impacts_list)
CountsDiffer(weights_list, impacts_list) == Len(weights_list) # Len(impacts_list)

\* for imp in impacts_list: if imp not in ["+", "-"]
BadImpact(impacts_list) == \E k \in DOMAIN impacts_list : impacts_list[k] \notin {"+", "-"}

\* topsis_run of the package topsis_himani, whose source is not part of the
\* tree: taken to be the packaged topsis of src/part1/topsis.py, which prints
\* and returns when a validation check fails.
topsis_run(files, input_file, weights, impacts, output_file) ==
    topsis(files, input_file, weights, impacts, output_file)

Respond(h, file, weights, impacts, status, body) ==
    req' = [req EXCEPT ![h] = [pc |-> "done", file |-> file, weights |-> weights,
                               impacts |-> impacts, status |-> status, body |-> body]]

\* Lines 21-41: the checks that answer 400, then file.save(input_path).
Receive(h, file, weights, impacts) ==
    /\ req[h].pc = "idle"
    /\ IF MissingField(file, weights, impacts)
          \/ CountsDiffer(Split(weights), Split(impacts))
          \/ BadImpact(Split(impacts))
       THEN /\ Respond(h, file, weights, impacts, 400, Absent)
            /\ UNCHANGED fs
       ELSE /\ fs' = [fs EXCEPT ![input_path(file.filename)] = file.content]
            /\ req' = [req EXCEPT ![h] = [pc |-> "saved", file |-> file, weights |-> weights,
                                          impacts |-> impacts, status |-> 0, body |-> Absent]]
    /\ UNCHANGED <<argv, pc, stdout, raised>>

\* Lines 44-50: topsis_run on the two paths; an exception answers 500.
Run(h) ==
    /\ req[h].pc = "saved"
    /\ \E r \in {topsis_run(fs, input_path(req[h].file.filename), req[h].weights,
                            req[h].impacts, output_path(req[h].file.filename))} :
          /\ fs' = r.files
          /\ IF r.raised
             THEN Respond(h, req[h].file, req[h].weights, req[h].impacts, 500, Absent)
             ELSE req' = [req EXCEPT ![h].pc = "ran"]
    /\ UNCHANGED <<argv, pc, stdout, raised>>

\* Line 53: send_file(output_path); a path that does not exist raises, which
\* the server answers with 500.  (The server runs in its own directory, so
\* that send_file and topsis_run resolve the path alike.)
Send(h) ==
    /\ req[h].pc = "ran"
    /\ LET out == fs[output_path(req[h].file.filename)]
       IN  IF out.kind = "absent"
           THEN Respond(h, req[h].file, req[h].weights, req[h].impacts, 500, Absent)
           ELSE Respond(h, req[h].file, req[h].weights, req[h].impacts, 200, out)
    /\ UNCHANGED <<fs, argv, pc, stdout, raised>>

\* The response is delivered and the thread takes the next request.
Finish(h) ==
    /\ req[h].pc = "done"
    /\ req' = [req EXCEPT ![h] = Idle]
    /\ UNCHANGED <<fs, argv, pc, stdout, raised>>

(***************************************************************************)
(* Requests of the service runs                                            *)
(***************************************************************************)
\* The threaded development server handles requests concurrently.
Handlers == {1, 2}

TA == Table(<<"Name", "C1", "C2">>, <<<<"1", "2">>, <<"2", "1">>>>)
TB == Table(<<"Name", "C1", "C2">>, <<<<"2", "1">>, <<"1", "2">>>>)
TBad == Table(<<"Name", "C1", "C2">>, <<<<"1", "x">>, <<"2", "1">>>>)
TOne == Table(<<"Name", "C1", "C2">>, <<<<"1", "2">>>>)

SvcFiles == {NoFile, Upload("", TA), Upload("a.csv", TA), Upload("a.csv", TB),
             Upload("a.csv", TBad), Upload("b.csv", TOne)}
SvcWeights == {<< >>, <<"1", ",", "1">>, <<"1">>}
SvcImpacts == {<< >>, <<"+", ",", "-">>, <<"+">>, <<"+", ",", "*">>}
SvcPaths == {input_path(n) : n \in {"a.csv", "b.csv"}}
            \cup {output_path(n) : n \in {"a.csv", "b.csv"}}

InitSvc ==
    /\ fs = [p \in SvcPaths |-> Absent]
    /\ req = [h \in Handlers |-> Idle]
    /\ argv = << >>
    /\ pc = "none"
    /\ stdout = ""
    /\ raised = FALSE

\* A step of handler thread h.
Step(h) ==
    \/ \E file \in SvcFiles, weights \in SvcWeights, impacts \in SvcImpacts :
          Receive(h, file, weights, impacts)
    \/ Run(h)
    \/ Send(h)
    \/ Finish(h)

NextSvc == \E h \in Handlers : Step(h)

SpecSvc == InitSvc /\ [][NextSvc]_vars

\* The same endpoint receiving its requests one after the other.
InitSeq ==
    /\ fs = [p \in SvcPaths |-> Absent]
    /\ req = [h \in {1} |-> Idle]
    /\ argv = << >>
    /\ pc = "none"
    /\ stdout = ""
    /\ raised = FALSE

NextSeq == Step(1)

SpecSeq == InitSeq /\ [][NextSeq]_vars

(***************************************************************************)
(* Vocabulary of the properties                                            *)
(***************************************************************************)
ErrorLines == {ErrNotFound, ErrRead, ErrColumns, ErrNumeric, ErrCount, ErrWeights, ErrImpacts}

\* Some validation check fails on (file, weights, impacts): the file is
\* missing or unreadable, has fewer than 3 columns or a non-numeric criterion
\* cell, a count differs from the number of criterion columns, a weight is
\* not a number, or an impact is neither "+" nor "-".
FailsValidation(file, weights, impacts) ==
    \/ file.kind # "csv"
    \/ Len(file.header) < 3
    \/ \E i \in DOMAIN file.rows : \E j \in 2..Len(file.header) : ~IsFloat(file.rows[i][j].s)
    \/ Len(Split(weights)) # Len(file.header) - 1
    \/ Len(Split(impacts)) # Len(file.header) - 1
    \/ \E k \in DOMAIN Split(weights) : ~IsFloat(Split(weights)[k])
    \/ \E k \in DOMAIN Split(impacts) : Split(impacts)[k] \notin {"+", "-"}

\* The topsis.py process has run topsis on its four arguments.
Ran == pc = "done" /\ Len(argv) = 4

InFile == fs[argv[1]]
OutFile == fs[argv[4]]

\* The run wrote its output table (Stale and Absent are what was there before).
OutputWritten == Ran /\ OutFile.kind = "csv" /\ OutFile # Stale

\* The Topsis Score cell and the Rank of row i of the written table.
ScoreOut(i) == OutFile.rows[i][Index(OutFile.header, "Topsis Score")]
RankOut(i) == OutFile.rows[i][Index(OutFile.header, "Rank")].a
OutRows == DOMAIN OutFile.rows

\* The scores topsis computes from the input of the run.
InputScores ==
    Scores(AsFloat(CriteriaCells(InFile)),
           Array([k \in DOMAIN Split(argv[2]) |-> ParseFloat(Split(argv[2])[k])]),
           Split(argv[3]), Len(InFile.header) - 1)

(***************************************************************************)
(* C1: a call of topsis in which a validation check fails prints an error  *)
(* and returns, and leaves every file, the output path included, as it was.*)
(***************************************************************************)
C1_ValidationFailureWritesNothing ==
    [][(pc = "ready" /\ pc' = "done" /\ Len(argv) = 4
        /\ FailsValidation(fs[argv[1]], argv[2], argv[3]))
       => (fs' = fs /\ ~raised' /\ stdout' \in ErrorLines)]_vars

\* A rejected run whose output path held an earlier result: every other check
\* passed and an impact was not "+" or "-".
C1_Witness ==
    /\ Ran
    /\ FailsValidation(InFile, argv[2], argv[3])
    /\ stdout = ErrImpacts
    /\ OutFile = Stale

(***************************************************************************)
(* C2: in the written table the Rank of a row is 1 plus the number of rows *)
(* with a strictly greater Topsis Score (competition ranking).             *)
(***************************************************************************)
C2_CompetitionRank ==
    OutputWritten =>
        \A i \in OutRows :
            RankOut(i) =
                1 + Cardinality({k \in OutRows : ScoreGT(ScoreOut(k), ScoreOut(i))})

(***************************************************************************)
(* C3: a valid input with an all-zero criterion column is rejected: an     *)
(* error is reported and no output is written.                             *)
(***************************************************************************)
ZeroColumn ==
    \E j \in 2..Len(InFile.header) :
        \A i \in DOMAIN InFile.rows : ParseFloat(InFile.rows[i][j].s) = 0

C3_ZeroColumnRejected ==
    (Ran /\ ~FailsValidation(InFile, argv[2], argv[3]) /\ ZeroColumn)
        => (OutFile.kind = "absent" /\ stdout # Success)

(***************************************************************************)
(* C4: a valid input with a row at distance 0 from both ideal points       *)
(* completes without an exception, writes the output, and gives that row   *)
(* the score 0.5.                                                          *)
(***************************************************************************)
C4_DegenerateRowScoresHalf ==
    (Ran /\ ~FailsValidation(InFile, argv[2], argv[3]))
        => \A i \in DOMAIN InputScores :
              InputScores[i].t = "nan"
                  => /\ ~raised
                     /\ OutputWritten
                     /\ ScoreOut(i).t = "score"
                     /\ ScoreOut(i).a = ScoreOut(i).b

(***************************************************************************)
(* C5: a weight token that is negative, or not a number, makes topsis      *)
(* reject the input: a run that returns has printed an error and written   *)
(* no output.                                                              *)
(***************************************************************************)
C5_NegativeWeightRejected ==
    (Ran /\ ~raised
         /\ \E k \in DOMAIN Split(argv[2]) :
                \/ ~IsFloat(Split(argv[2])[k])
                \/ ParseFloat(Split(argv[2])[k]) < 0)
        => (stdout \in ErrorLines /\ ~OutputWritten)

(***************************************************************************)
(* C6: the written table has the rows of the input, every input column     *)
(* with its values unchanged, and exactly two more columns.                *)
(***************************************************************************)
C6_OutputKeepsInput ==
    OutputWritten =>
        /\ Len(OutFile.rows) = Len(InFile.rows)
        /\ Len(OutFile.header) = Len(InFile.header) + 2
        /\ \A k \in DOMAIN InFile.header :
              /\ OutFile.header[k] = InFile.header[k]
              /\ \A i \in DOMAIN InFile.rows : OutFile.rows[i][k] = InFile.rows[i][k]

(***************************************************************************)
(* C10: in the written table a greater score has a smaller Rank and equal  *)
(* scores have equal Ranks.                                                *)
(***************************************************************************)
C10_RankOrdersScores ==
    OutputWritten =>
        \A x, y \in OutRows :
            /\ ScoreGT(ScoreOut(x), ScoreOut(y)) => RankOut(x) < RankOut(y)
            /\ ScoreEQ(ScoreOut(x), ScoreOut(y)) => RankOut(x) = RankOut(y)

\* A written table in which three rows share a score and a fourth lies below.
C10_Witness ==
    /\ OutputWritten
    /\ \E x, y, z, u \in OutRows :
          /\ x < y /\ y < z
          /\ ScoreEQ(ScoreOut(x), ScoreOut(y))
          /\ ScoreEQ(ScoreOut(y), ScoreOut(z))
          /\ ScoreGT(ScoreOut(x), ScoreOut(u))

(***************************************************************************)
(* Vocabulary of the service properties                                    *)
(***************************************************************************)
\* The endpoint's own grounds for 400.
Rejects400(q) ==
    \/ ~q.file.present
    \/ q.file.filename = ""
    \/ q.weights = << >>
    \/ q.impacts = << >>
    \/ Len(Split(q.weights)) # Len(Split(q.impacts))
    \/ \E k \in DOMAIN Split(q.impacts) : Split(q.impacts)[k] \notin {"+", "-"}

\* What topsis writes for the request alone, on a file system of its own.
OwnResult(q) ==
    topsis_run([p \in SvcPaths |->
               IF p = input_path(q.file.filename) THEN q.file.content ELSE Absent],
           input_path(q.file.filename), q.weights, q.impacts,
           output_path(q.file.filename)).files[output_path(q.file.filename)]

C8_ResponseIsOwnResult ==
    \A h \in DOMAIN req :
        (req[h].pc = "done" /\ req[h].status = 200
         /\ ~FailsValidation(req[h].file.content, req[h].weights, req[h].impacts))
            => req[h].body = OwnResult(req[h])

(***************************************************************************)
(* C9: a request with a missing or empty field, differing counts of        *)
(* weights and impacts, or an impact other than "+" or "-" is answered 400 *)
(* by the step that receives it, which changes no file; such a request is  *)
(* never past the checks, where the upload is saved and the core runs.     *)
(***************************************************************************)
C9_BadRequestIs400 ==
    [][\A h \in DOMAIN req' :
          (req'[h].pc # "idle" /\ Rejects400(req'[h]))
              => /\ req'[h].pc = "done"
                 /\ req'[h].status = 400
                 /\ req[h].pc = "idle" => fs' = fs]_vars

\* A request answered 400 for its counts alone, its upload not saved.
C9_Witness ==
    \E h \in DOMAIN req :
        /\ req[h].pc = "done"
        /\ req[h].status = 400
        /\ req[h].file.filename = "a.csv"
        /\ ~MissingField(req[h].file, req[h].weights, req[h].impacts)
        /\ Len(Split(req[h].weights)) # Len(Split(req[h].impacts))
        /\ fs[input_path("a.csv")].kind = "absent"

====
